---- MODULE Spec2Model ----
(***************************************************************************)
(* django_elasticsearch_dsl: the document synchronizer (documents.py:      *)
(* index naming, action generation, multi-cluster dispatch) and the result *)
(* materializer (search.py: Search, SearchNone).                           *)
(*                                                                         *)
(* Python values are encoded as follows.                                   *)
(*   None (in a string slot)      the string None                          *)
(*   an optional integer          <<>> for None, <<n>> for n               *)
(*   str or list/tuple of str     [kind |-> "str" | "list", names |-> seq] *)
(*   a call's outcome             a record with a field raised/err         *)
(***************************************************************************)
EXTENDS Integers, Sequences, FiniteSets, TLC

VARIABLES
    settings,   \* django.conf.settings, the document class (options, fields, hooks)
                \* and the data of the model instances
    current_language,   \* the active language context (translation.get_language())
    pc,         \* position of the running DocType call
    op,         \* the running call: its name and arguments
    i,          \* bulk/save/delete: next position in settings.ELASTICSEARCH_DSL.keys()
    actions,    \* bulk: the iterable of actions handed to every cluster
    calls,      \* the cluster calls made so far, in order
    ret,        \* what the call gave its caller (value or exception)
    table,      \* the model's table: primary keys in the backend's natural row order
    es_hits,    \* the ids of the hits the search cluster answers with, in hit order
    heap,       \* the Search objects alive, by position
    queried,    \* per Search object: whether a to_queryset call on it queried the cluster
    last        \* the last Search call and what it returned

vars == <<settings, current_language, pc, op, i, actions, calls, ret, table, es_hits, heap, queried, last>>
syncVars == <<pc, op, i, actions, calls, ret>>
searchVars == <<table, es_hits, heap, queried, last>>

(***************************************************************************)
(* Bounds of the model.                                                    *)
(***************************************************************************)
MaxExtraClusters == 2   \* configured clusters besides "default"
MaxObjs == 3            \* length of the object list given to _get_actions
MaxSyncObjs == 2        \* length of the object list given to update and bulk
MaxLangs == 2           \* length of settings.LANGUAGE_ANALYSERS
MaxHits == 3            \* number of hits in a search response
MaxSearches == 3        \* Search objects alive at a time
MaxPk == 2              \* primary keys are 1..MaxPk
MaxPage == 2            \* queryset_pagination is None or 1..MaxPage

None == "None"

Falsy(s) == s = None \/ s = ""

Range(s) == {s[k] : k \in 1..Len(s)}

RECURSIVE SeqsUpTo(_, _)
\* All sequences over S of length at most n.
SeqsUpTo(S, n) ==
    IF n = 0 THEN {<<>>}
    ELSE LET shorter == SeqsUpTo(S, n - 1)
         IN  shorter \cup {Append(s, e) : s \in {t \in shorter : Len(t) = n - 1}, e \in S}

\* All orderings (sequences without repetition) of the set S.
Orderings(S) ==
    {s \in SeqsUpTo(S, Cardinality(S)) : Len(s) = Cardinality(S) /\ Range(s) = S}

(***************************************************************************)
(* documents.py: index naming                                              *)
(***************************************************************************)
Str(name) == [kind |-> "str", names |-> <<name>>, err |-> None]
List(names) == [kind |-> "list", names |-> names, err |-> None]
Raise(err) == [kind |-> "raise", names |-> <<>>, err |-> err]

\* '{prefix}{index}{language}{suffix}'.format(...) of lines 77-82 and 86-91.
FormatIndex(index, language, s) ==
    (IF ~Falsy(s.ES_INDEX_PREFIX) THEN s.ES_INDEX_PREFIX \o "-" ELSE "")
    \o index
    \o (IF s.TRANSLATION_ENABLED THEN "-" \o language ELSE "")
    \o (IF ~Falsy(s.ES_INDEX_SUFFIX) THEN "-" \o s.ES_INDEX_SUFFIX ELSE "")

\* elasticsearch_dsl Document._default_index as called on line 93:
\* `index or cls._index._name`.
_default_index(index, s) ==
    IF index.kind = "list" /\ index.names = <<>> THEN s.index_name
    ELSE IF index.kind = "str" /\ Falsy(index.names[1]) THEN s.index_name
    ELSE index

get_custom_index_name(index, language, s) ==
    LET lang == IF Falsy(language) THEN s.LANGUAGE_ENGLISH ELSE language
        custom ==
            IF index.kind = "list"
            THEN List([k \in 1..Len(index.names) |-> FormatIndex(index.names[k], lang, s)])
            \* line 88 formats the loop variable i of the other branch, which is
            \* unbound here: the single-name path raises UnboundLocalError.
            ELSE Raise("UnboundLocalError")
    IN  IF custom.kind = "raise" THEN custom
        ELSE IF ~(s.TRANSLATION_ENABLED /\ ~Falsy(s.ES_INDEX_PREFIX) /\ ~Falsy(s.ES_INDEX_SUFFIX))
             THEN _default_index(custom, s)
             ELSE custom

(***************************************************************************)
(* documents.py: action generation                                         *)
(***************************************************************************)
\* Whether a hook of the document class raises for this instance: the data of
\* one instance can be such that the prepare hooks fail on it.
HookRaises(instance, s) == s.broken.how = "prepare" /\ s.broken.pk = instance

\* A prepare that calls the per-field hook even when the with-related hook is
\* defined.
ResolverCalls_both(field, instance, s) ==
    (IF field.with_related
     THEN <<[by |-> "prepare_with_related", instance |-> instance,
             related |-> s.related_to_ignore]>>
     ELSE <<>>)
    \o (IF field.prepare
        THEN <<[by |-> "prepare", instance |-> instance, related |-> "not passed"]>>
        ELSE <<>>)
    \o (IF ~field.with_related /\ ~field.prepare
        THEN <<[by |-> "get_value_from_instance", instance |-> instance,
                related |-> s.related_to_ignore]>>
        ELSE <<>>)

\* Lines 143-156: the calls that resolve the value of a field, with their
\* arguments: prepare_<name>_with_related if the document defines it, else
\* prepare_<name> if it defines it, else field.get_value_from_instance.
ResolverCalls(field, instance, s) ==
    IF field.with_related
    THEN <<[by |-> "prepare_with_related", instance |-> instance,
            related |-> s.related_to_ignore]>>
    ELSE IF field.prepare
         THEN <<[by |-> "prepare", instance |-> instance, related |-> "not passed"]>>
         ELSE <<[by |-> "get_value_from_instance", instance |-> instance,
                 related |-> s.related_to_ignore]>>

\* A field value: the instance it was taken from, the resolver that produced
\* it, the language context it was produced under, and what translation made
\* of it.
Value(instance, by, language) ==
    [instance |-> instance, by |-> by, language |-> language, text |-> "original"]

\* DocType.translate_field (lines 114-122) returns the value as it is. A
\* document class can override it; the override modelled here follows the
\* docstring: on an instance it cannot translate it raises unless
\* fail_silently, and then returns a best-effort value.
translate_field(field_name, value, fail_silently, s) ==
    IF s.translate_field = "base" THEN [raised |-> FALSE, err |-> None, value |-> value]
    ELSE IF s.broken.how = "translate" /\ s.broken.pk = value.instance
         THEN IF fail_silently
              THEN [raised |-> FALSE, err |-> None,
                    value |-> [value EXCEPT !.text = "best effort"]]
              ELSE [raised |-> TRUE, err |-> "TranslationError", value |-> value]
         ELSE [raised |-> FALSE, err |-> None,
               value |-> [value EXCEPT !.text = "translated"]]

\* A prepare that translates with the default of fail_silently.
TranslateArgs_default(fail_silently) == TRUE

\* Line 159: the fail_silently that prepare hands to translate_field.
TranslateArgs(fail_silently) == fail_silently

RECURSIVE PrepareFields(_, _, _, _, _, _)
\* The loop of prepare (lines 136-161) over the fields that are left; data is
\* the dict so far, as the sequence of its items.
PrepareFields(fields, instance, language, fail_silently, s, data) ==
    IF fields = <<>> THEN [raised |-> FALSE, err |-> None, data |-> data]
    ELSE LET field == Head(fields)
             resolvers == ResolverCalls(field, instance, s)
             hook_raises ==
                 \E k \in 1..Len(resolvers) :
                     resolvers[k].by # "get_value_from_instance" /\ HookRaises(instance, s)
             field_value == Value(instance, resolvers[Len(resolvers)].by, language)
             translated ==
                 IF s.TRANSLATION_ENABLED
                 THEN translate_field(field.name, field_value,
                                      TranslateArgs(fail_silently), s)
                 ELSE [raised |-> FALSE, err |-> None, value |-> field_value]
         IN  IF ~field.ded
             THEN PrepareFields(Tail(fields), instance, language, fail_silently, s, data)
             ELSE IF hook_raises
             THEN [raised |-> TRUE, err |-> "HookError", data |-> data]
             ELSE IF translated.raised
             THEN [raised |-> TRUE, err |-> translated.err, data |-> data]
             ELSE PrepareFields(Tail(fields), instance, language, fail_silently, s,
                      Append(data,
                          [name |-> field.name,
                           resolvers |-> resolvers,
                           translations |->
                               IF s.TRANSLATION_ENABLED
                               THEN <<[field_name |-> field.name,
                                       fail_silently |-> TranslateArgs(fail_silently)]>>
                               ELSE <<>>,
                           value |-> translated.value]))

\* DocType.prepare(instance, fail_silently), called while `language` is the
\* active language context: the dict of the mapped fields, or the exception a
\* hook raised.
prepare(instance, language, fail_silently, s) ==
    PrepareFields(s.fields, instance, language, fail_silently, s, <<>>)

NullSource == [null |-> TRUE, data |-> <<>>]

\* translation.override(language).__enter__ (line 206): the language context
\* that is active inside the with block; None deactivates every translation.
override_enter(language) == language

\* An override that is undone only when the block ends without an exception.
override_exit_onReturn(old_language, language, raised) ==
    IF raised THEN override_enter(language) ELSE old_language

\* translation.override(language).__exit__: the language context after the
\* with block, however the block ended, is the one saved on entry.
override_exit(old_language, language, raised) == old_language

\* A source that only index actions carry.
NeedsSource_indexOnly(action) == action = "index"

\* Line 213: `if action != 'delete'`.
NeedsSource(action) == action # "delete"

\* One bulk action, or the exception raised while building it. The items of
\* the dict are evaluated in order: the index name before the source.
_prepare_action(object_instance, action, language, fail_silently, s) ==
    LET index == get_custom_index_name(s.index_name, language, s)
        source == IF NeedsSource(action)
                  THEN prepare(object_instance, override_enter(language), fail_silently, s)
                  ELSE [raised |-> FALSE, err |-> None, data |-> <<>>]
    IN  IF index.kind = "raise"
        THEN [raised |-> TRUE, err |-> index.err]
        ELSE IF source.raised
        THEN [raised |-> TRUE, err |-> source.err]
        ELSE [raised |-> FALSE, err |-> None,
              _op_type |-> action,
              _index |-> index,
              _type |-> s.doc_type,
              _id |-> object_instance,
              _source |-> IF NeedsSource(action)
                          THEN [null |-> FALSE, data |-> source.data]
                          ELSE NullSource]

\* django.core.paginator.Paginator(object_list, per_page).num_pages
num_pages(object_list, per_page) ==
    LET hits == IF Len(object_list) > 1 THEN Len(object_list) ELSE 1
    IN  (hits + per_page - 1) \div per_page

\* A page whose last, shorter page is lost.
page_object_list_noRemainder(object_list, per_page, number) ==
    LET bottom == (number - 1) * per_page
        top == IF bottom + per_page > Len(object_list)
               THEN bottom ELSE bottom + per_page
    IN  SubSeq(object_list, bottom + 1, top)

\* Paginator.page(number).object_list
page_object_list(object_list, per_page, number) ==
    LET bottom == (number - 1) * per_page
        top == IF bottom + per_page >= Len(object_list)
               THEN Len(object_list) ELSE bottom + per_page
    IN  SubSeq(object_list, bottom + 1, top)

RECURSIVE PagesFrom(_, _, _)
\* The rows visited by `for page in paginator.page_range: for object_instance in
\* paginator.page(page).object_list`, from page `number` on.
PagesFrom(object_list, per_page, number) ==
    IF number > num_pages(object_list, per_page) THEN <<>>
    ELSE page_object_list(object_list, per_page, number)
         \o PagesFrom(object_list, per_page, number + 1)

\* The object instances in the order the loops of _get_actions visit them.
IterObjects(object_list, s) ==
    IF s.queryset_pagination # <<>>
    THEN PagesFrom(object_list, s.queryset_pagination[1], 1)
    ELSE object_list

RECURSIVE PrepareCalls(_, _, _)
\* The _prepare_action calls of _get_actions, in order: (instance, language, fail_silently).
PrepareCalls(objs, fail_silently, s) ==
    IF objs = <<>> THEN <<>>
    ELSE (IF s.TRANSLATION_ENABLED
          THEN [k \in 1..Len(s.LANGUAGE_ANALYSERS) |->
                    [obj |-> Head(objs), language |-> s.LANGUAGE_ANALYSERS[k],
                     fail_silently |-> fail_silently]]
          \* lines 242 and 245 pass neither language nor fail_silently
          ELSE <<[obj |-> Head(objs), language |-> None, fail_silently |-> TRUE]>>)
         \o PrepareCalls(Tail(objs), fail_silently, s)

RECURSIVE RunCalls(_, _, _, _, _)
\* Consumes the generator to its end: the actions yielded, the exception that
\* ended it if one did, and the language context it leaves active; `language`
\* is the context active when the next action is built.
RunCalls(todo, action, s, yielded, language) ==
    IF todo = <<>>
    THEN [yielded |-> yielded, raised |-> FALSE, err |-> None,
          current_language |-> language]
    ELSE LET c == Head(todo)
             a == _prepare_action(c.obj, action, c.language, c.fail_silently, s)
             after == override_exit(language, c.language, a.raised)
         IN  IF a.raised
             THEN [yielded |-> yielded, raised |-> TRUE, err |-> a.err,
                   current_language |-> after]
             ELSE RunCalls(Tail(todo), action, s, Append(yielded, a), after)

\* The generator of _get_actions, iterated while `language` is the caller's
\* language context.
_get_actions(object_list, action, fail_silently, s, language) ==
    RunCalls(PrepareCalls(IterObjects(object_list, s), fail_silently, s), action, s,
             <<>>, language)

(***************************************************************************)
(* Configurations                                                          *)
(***************************************************************************)
Languages == <<"en", "fr", "de">>

IndexName == "idx"

\* settings.ELASTICSEARCH_DSL.keys(): "default" and k further clusters, in any
\* enumeration order.
ClusterMaps ==
    UNION {Orderings({"default"} \cup {"es" \o ToString(n) : n \in 1..k}) :
           k \in 0..MaxExtraClusters}

BaseSettings ==
    [ELASTICSEARCH_DSL |-> <<"default">>,
     TRANSLATION_ENABLED |-> FALSE,
     LANGUAGE_ANALYSERS |-> SubSeq(Languages, 1, 2),
     LANGUAGE_ENGLISH |-> "en",
     ES_INDEX_PREFIX |-> "",
     ES_INDEX_SUFFIX |-> "",
     queryset_pagination |-> <<>>,
     LOAD_PER_QUERY |-> <<>>,
     index_name |-> Str(IndexName),
     doc_type |-> "doc",
     fields |-> <<[name |-> "title", ded |-> TRUE, with_related |-> FALSE,
                   prepare |-> FALSE]>>,
     related_to_ignore |-> None,
     translate_field |-> "base",
     broken |-> [pk |-> 0, how |-> "none"]]

\* The Index name of a document is one name; get_custom_index_name also
\* takes a list or tuple of names.
IndexNames == {Str(IndexName), List(<<IndexName>>)}

\* Configurations of the dispatch specification: every cluster map.
SyncSettings ==
    {[BaseSettings EXCEPT !.ELASTICSEARCH_DSL = m, !.TRANSLATION_ENABLED = t,
                          !.index_name = n] :
        m \in ClusterMaps, t \in BOOLEAN, n \in IndexNames}

\* Configurations of the action-generation specification: every combination of
\* translation, analysers, pagination, index name and prefix/suffix.
ActionsSettings ==
    {[BaseSettings EXCEPT !.TRANSLATION_ENABLED = t,
                          !.LANGUAGE_ANALYSERS = SubSeq(Languages, 1, k),
                          !.queryset_pagination = p, !.index_name = n,
                          !.ES_INDEX_PREFIX = pre, !.ES_INDEX_SUFFIX = suf] :
        t \in BOOLEAN, k \in 0..MaxLangs,
        p \in {<<>>} \cup {<<per_page>> : per_page \in 1..MaxPage},
        n \in IndexNames, pre \in {"", "p"}, suf \in {"", "s"}}

ObjectLists == SeqsUpTo(1..MaxPk, MaxObjs)

SyncObjectLists == SeqsUpTo(1..MaxPk, MaxSyncObjs)

\* What update is given: one model instance, or an iterable of instances.
Things ==
    {[is_model |-> TRUE, objs |-> <<pk>>] : pk \in 1..MaxPk}
    \cup {[is_model |-> FALSE, objs |-> l] : l \in SyncObjectLists}

(***************************************************************************)
(* documents.py: multi-cluster dispatch (bulk, save, delete, update)       *)
(***************************************************************************)
ClusterResponses == {"r1", "r2"}

\* helpers.bulk over no action sends no request: it returns (0, []).
NothingSent == "nothing sent"

NoneValue == [count |-> 0, resp |-> None]

Returned(value) == [raised |-> FALSE, err |-> None, value |-> value]
Raised(err) == [raised |-> TRUE, err |-> err, value |-> NoneValue]

NoOp == [name |-> "none", object_list |-> <<>>, action |-> None, fail_silently |-> TRUE]
NoActions == [kind |-> "none", run |-> [yielded |-> <<>>, raised |-> FALSE, err |-> None],
              pos |-> 0, finished |-> TRUE]

\* The action dict a caller of bulk builds for an instance.
IndexAction(object_instance) ==
    [raised |-> FALSE, err |-> None, _op_type |-> "index", _index |-> Str(IndexName),
     _type |-> BaseSettings.doc_type, _id |-> object_instance,
     _source |-> [null |-> FALSE, data |-> <<>>]]

\* A list of actions: every iteration starts over.
ListOf(items) ==
    [kind |-> "list", run |-> [yielded |-> items, raised |-> FALSE, err |-> None],
     pos |-> 0, finished |-> FALSE]

\* The generator object _get_actions returns: nothing has run yet, and what it
\* yields is yielded once.
GeneratorOf(run) == [kind |-> "generator", run |-> run, pos |-> 0, finished |-> FALSE]

\* What one elasticsearch.helpers.bulk call draws from the iterable.
Drawn(it) ==
    IF it.kind = "generator"
    THEN SubSeq(it.run.yielded, it.pos + 1, Len(it.run.yielded))
    ELSE it.run.yielded

\* Whether iterating the iterable to its end raises: a generator raises where
\* its body raises, once; a finished generator only stops.
DrawRaises(it) == it.kind = "generator" /\ it.run.raised /\ ~it.finished

\* The iterable after a helpers.bulk call iterated it.
AfterDraw(it) ==
    IF it.kind = "generator"
    THEN [it EXCEPT !.pos = Len(it.run.yielded), !.finished = TRUE]
    ELSE it

\* The language context after a helpers.bulk call iterated the iterable: the
\* one the generator's body leaves active, if a generator ran.
LanguageAfterDraw(it, language) ==
    IF it.kind = "generator" /\ ~it.finished THEN it.run.current_language ELSE language

Keys == settings.ELASTICSEARCH_DSL

\* A dispatch loop that calls every cluster, "default" included, in each method.
LoopCalls_everyAlias(name, connection_alias) == TRUE

\* The condition under which an iteration of the loop calls the cluster:
\* lines 188 and 201 skip "default", line 196 skips nothing.
LoopCalls(name, connection_alias) ==
    IF name = "delete" THEN TRUE ELSE connection_alias # "default"

\* The call after the loop: bulk (line 191) and save (line 203) call the default
\* connection; delete has no statement after its loop.
CallsDefaultAfterLoop(name) == name # "delete"

\* A method that drops the result of its last call.
ReturnValue_dropped(name, default_result) == NoneValue

\* The value a call that ran to its end returns: the result of the call on
\* lines 191 and 203; delete has no return statement.
ReturnValue(name, default_result) ==
    IF name = "delete" THEN NoneValue ELSE default_result

\* Lines 257-260: a model instance is wrapped in a list, anything else is
\* taken as the object list.
object_list_of(thing) == IF thing.is_model THEN <<thing.objs[1]>> ELSE thing.objs

\* DocType.update: bulk over the generator of _get_actions.
update(thing, action, fail_silently) ==
    /\ pc = "idle"
    /\ pc' = "loop"
    /\ op' = [name |-> "update", object_list |-> object_list_of(thing),
              action |-> action, fail_silently |-> fail_silently]
    /\ actions' = GeneratorOf(_get_actions(object_list_of(thing), action,
                                           fail_silently, settings, current_language))
    /\ i' = 1
    /\ UNCHANGED <<settings, current_language, calls, ret, searchVars>>

\* DocType.bulk called with a list of actions.
bulk(object_list) ==
    /\ pc = "idle"
    /\ pc' = "loop"
    /\ op' = [NoOp EXCEPT !.name = "bulk", !.object_list = object_list, !.action = "index"]
    /\ actions' = ListOf([k \in 1..Len(object_list) |-> IndexAction(object_list[k])])
    /\ i' = 1
    /\ UNCHANGED <<settings, current_language, calls, ret, searchVars>>

\* DocType.save and DocType.delete of one document instance.
save_or_delete(name) ==
    /\ pc = "idle"
    /\ pc' = "loop"
    /\ op' = [NoOp EXCEPT !.name = name]
    /\ actions' = NoActions
    /\ i' = 1
    /\ UNCHANGED <<settings, current_language, calls, ret, searchVars>>

IsBulk == op.name \in {"bulk", "update"}

\* One call to the cluster `alias`: helpers.bulk, Document.save or
\* Document.delete with that connection. It iterates the actions (bulk), then
\* the cluster answers or the call raises.
ClusterCall(alias, outcome, resp) ==
    LET got == IF IsBulk THEN Drawn(actions) ELSE <<>>
        iter_error == IsBulk /\ DrawRaises(actions)
        n == IF IsBulk THEN Len(got) ELSE 1
    IN  [alias |-> alias, got |-> got,
         outcome |-> IF iter_error THEN "iter_error" ELSE outcome,
         err |-> IF iter_error THEN actions.run.err
                 ELSE IF outcome = "fail" THEN "TransportError@" \o alias ELSE None,
         result |-> [count |-> n, resp |-> IF IsBulk /\ got = <<>> THEN NothingSent ELSE resp]]

\* The ways a cluster call can end: the cluster answers or the call raises; a
\* bulk over no action sends nothing and cannot fail.
Outcomes == IF IsBulk /\ Drawn(actions) = <<>> THEN {"ok"} ELSE {"ok", "fail"}

\* A loop that goes on to the next cluster when a call raises.
LoopRaises_swallowed(c) == FALSE

\* Whether a cluster call made in the loop ends the method: the loops have no
\* try/except, so an exception raised by the call leaves the method.
LoopRaises(c) == c.outcome # "ok"

\* One iteration of `for connection_alias in settings.ELASTICSEARCH_DSL.keys()`
\* that calls the cluster.
LoopCall ==
    /\ pc = "loop" /\ i <= Len(Keys)
    /\ LoopCalls(op.name, Keys[i])
    /\ \E outcome \in Outcomes, resp \in ClusterResponses :
         LET c == ClusterCall(Keys[i], outcome, resp)
         IN  /\ calls' = Append(calls, c)
             /\ actions' = AfterDraw(actions)
             /\ current_language' = LanguageAfterDraw(actions, current_language)
             /\ IF ~LoopRaises(c)
                THEN /\ i' = i + 1
                     /\ UNCHANGED <<pc, ret>>
                ELSE /\ pc' = "raised"
                     /\ ret' = Raised(c.err)
                     /\ UNCHANGED i
    /\ UNCHANGED <<settings, op, searchVars>>

\* One iteration that evaluates to None: "default" in bulk and save.
LoopSkip ==
    /\ pc = "loop" /\ i <= Len(Keys)
    /\ ~LoopCalls(op.name, Keys[i])
    /\ i' = i + 1
    /\ UNCHANGED <<settings, current_language, pc, op, actions, calls, ret, searchVars>>

\* After the loop: the call on the default connection, whose result is returned.
DefaultCall ==
    /\ pc = "loop" /\ i > Len(Keys)
    /\ CallsDefaultAfterLoop(op.name)
    /\ \E outcome \in Outcomes, resp \in ClusterResponses :
         LET c == ClusterCall("default", outcome, resp)
         IN  /\ calls' = Append(calls, c)
             /\ actions' = AfterDraw(actions)
             /\ current_language' = LanguageAfterDraw(actions, current_language)
             /\ IF c.outcome = "ok"
                THEN /\ pc' = "returned"
                     /\ ret' = Returned(ReturnValue(op.name, c.result))
                ELSE /\ pc' = "raised"
                     /\ ret' = Raised(c.err)
    /\ UNCHANGED <<settings, op, i, searchVars>>

\* After the loop of delete: the method ends without a return statement.
DeleteEnd ==
    /\ pc = "loop" /\ i > Len(Keys)
    /\ ~CallsDefaultAfterLoop(op.name)
    /\ pc' = "returned"
    /\ ret' = Returned(ReturnValue(op.name, NoneValue))
    /\ UNCHANGED <<settings, current_language, op, i, actions, calls, searchVars>>

SearchIdle ==
    /\ table = <<>> /\ es_hits = <<>> /\ heap = <<>> /\ queried = <<>>
    /\ last = [call |-> "none"]

SyncIdle ==
    /\ pc = "idle" /\ op = NoOp /\ i = 1 /\ actions = NoActions
    /\ calls = <<>> /\ ret = Returned(NoneValue)

Init ==
    /\ settings \in SyncSettings
    /\ current_language = None
    /\ SyncIdle
    /\ SearchIdle

Next ==
    \/ \E thing \in Things, action \in {"index", "delete"}, fs \in BOOLEAN :
         update(thing, action, fs)
    \/ \E object_list \in SyncObjectLists : bulk(object_list)
    \/ \E name \in {"save", "delete"} : save_or_delete(name)
    \/ LoopCall
    \/ LoopSkip
    \/ DefaultCall
    \/ DeleteEnd

Spec == Init /\ [][Next]_vars

(***************************************************************************)
(* Index naming on its own (specification NamingSpec): a caller asks for   *)
(* the name of an index, given as one name or as a list of names.          *)
(***************************************************************************)
\* The index arguments: one name, or a list of no, one or two names.
IndexArgs ==
    {Str(n) : n \in {IndexName, "a"}}
    \cup {List(l) : l \in {<<>>, <<IndexName>>, <<IndexName, "a">>}}

\* The language arguments: None (the default of the parameter) or a tag.
LanguageArgs == {None, "en", "fr"}

\* cls.get_custom_index_name(index, language)
GetCustomIndexName(index, language) ==
    LET name == get_custom_index_name(index, language, settings)
    IN  /\ pc' = IF name.kind = "raise" THEN "raised" ELSE "returned"
        /\ op' = [name |-> "get_custom_index_name", index |-> index,
                  language |-> language]
        /\ ret' = [raised |-> name.kind = "raise", err |-> name.err, value |-> name]
        /\ UNCHANGED <<settings, current_language, i, actions, calls, searchVars>>

\* Every combination of translation, prefix and suffix; a prefix can also be
\* set to None.
NamingSettings ==
    {[BaseSettings EXCEPT !.TRANSLATION_ENABLED = t,
                          !.ES_INDEX_PREFIX = pre, !.ES_INDEX_SUFFIX = suf] :
        t \in BOOLEAN, pre \in {"", None, "p"}, suf \in {"", "s"}}

NamingInit ==
    /\ settings \in NamingSettings
    /\ current_language = None
    /\ SyncIdle
    /\ SearchIdle

NamingNext ==
    \E index \in IndexArgs, language \in LanguageArgs : GetCustomIndexName(index, language)

NamingSpec == NamingInit /\ [][NamingNext]_vars

\* The language context of the caller: none active, or a language.
CallerLanguages == {None, "fr"}

(***************************************************************************)
(* update over documents whose hooks can fail (specification UpdateSpec)   *)
(***************************************************************************)
Field(name, ded, with_related, prepare_hook) ==
    [name |-> name, ded |-> ded, with_related |-> with_related, prepare |-> prepare_hook]

\* The instances' data: no instance is broken, or one is, for the prepare
\* hooks or for the translation.
Brokens ==
    {[pk |-> 0, how |-> "none"]}
    \cup {[pk |-> pk, how |-> how] : pk \in 1..MaxPk, how \in {"prepare", "translate"}}

\* Two clusters; a document with one mapped field, resolved by the extractor
\* or by a prepare hook; translate_field as inherited or overridden.
UpdateSettings ==
    {[BaseSettings EXCEPT !.ELASTICSEARCH_DSL = <<"es1", "default">>,
                          !.TRANSLATION_ENABLED = t, !.index_name = n,
                          !.fields = <<Field("title", TRUE, FALSE, h)>>,
                          !.translate_field = tf, !.broken = b] :
        t \in BOOLEAN, n \in IndexNames, h \in BOOLEAN,
        tf \in {"base", "override"}, b \in Brokens}

UpdateInit ==
    /\ settings \in UpdateSettings
    /\ current_language = None
    /\ SyncIdle
    /\ SearchIdle

UpdateNext ==
    \/ \E thing \in Things, action \in {"index", "delete"}, fs \in BOOLEAN :
         update(thing, action, fs)
    \/ LoopCall
    \/ LoopSkip
    \/ DefaultCall

UpdateSpec == UpdateInit /\ [][UpdateNext]_vars

(***************************************************************************)
(* Document preparation on its own (specification PrepareSpec): callers    *)
(* call prepare and _prepare_action of documents of one or two fields.     *)
(***************************************************************************)
\* The declared fields of a document: "title", of any kind (mapped or not,
\* with or without each hook), alone or followed by "body".
FieldKinds(name) ==
    {Field(name, ded, wr, h) : ded \in BOOLEAN, wr \in BOOLEAN, h \in BOOLEAN}

FieldLists ==
    {<<f>> : f \in FieldKinds("title")}
    \cup {<<f, g>> : f \in FieldKinds("title"), g \in FieldKinds("body")}

PrepareSettings ==
    {[BaseSettings EXCEPT !.TRANSLATION_ENABLED = t, !.index_name = n,
                          !.fields = fl, !.related_to_ignore = "author",
                          !.translate_field = tf, !.broken = b] :
        t \in BOOLEAN, n \in IndexNames, fl \in FieldLists,
        tf \in {"base", "override"}, b \in Brokens}

\* doc.prepare(instance, fail_silently), under the caller's language context.
Prepare(instance, fail_silently) ==
    LET data == prepare(instance, current_language, fail_silently, settings)
    IN  /\ pc = "idle"
        /\ pc' = IF data.raised THEN "raised" ELSE "returned"
        /\ op' = [name |-> "prepare", object_list |-> <<instance>>, action |-> None,
                  fail_silently |-> fail_silently, language |-> current_language]
        /\ ret' = [raised |-> data.raised, err |-> data.err, value |-> data.data]
        /\ UNCHANGED <<settings, current_language, i, actions, calls, searchVars>>

\* doc._prepare_action(object_instance, action, language, fail_silently)
PrepareAction(object_instance, action, language, fail_silently) ==
    LET a == _prepare_action(object_instance, action, language, fail_silently, settings)
    IN  /\ pc = "idle"
        /\ pc' = IF a.raised THEN "raised" ELSE "returned"
        /\ op' = [name |-> "_prepare_action", object_list |-> <<object_instance>>,
                  action |-> action, fail_silently |-> fail_silently,
                  language |-> language]
        /\ ret' = [raised |-> a.raised, err |-> a.err, value |-> a]
        /\ current_language' = override_exit(current_language, language, a.raised)
        /\ UNCHANGED <<settings, i, actions, calls, searchVars>>

PrepareInit ==
    /\ settings \in PrepareSettings
    /\ current_language \in CallerLanguages
    /\ SyncIdle
    /\ SearchIdle

PrepareNext ==
    \/ \E instance \in 1..MaxPk, fs \in BOOLEAN : Prepare(instance, fs)
    \/ \E instance \in 1..MaxPk, action \in {"index", "update", "delete"},
          language \in LanguageArgs, fs \in BOOLEAN :
         PrepareAction(instance, action, language, fs)

PrepareSpec == PrepareInit /\ [][PrepareNext]_vars

(***************************************************************************)
(* Action generation on its own (specification ActionsSpec): a caller      *)
(* iterates the generator of _get_actions to its end.                      *)
(***************************************************************************)
get_actions(object_list, action, fail_silently) ==
    LET run == _get_actions(object_list, action, fail_silently, settings, current_language)
    IN  /\ pc = "idle"
        /\ current_language' = run.current_language
        /\ pc' = IF run.raised THEN "raised" ELSE "returned"
        /\ op' = [name |-> "_get_actions", object_list |-> object_list,
                  action |-> action, fail_silently |-> fail_silently]
        /\ ret' = [raised |-> run.raised, err |-> run.err, value |-> run.yielded]
        /\ UNCHANGED <<settings, i, actions, calls, searchVars>>

ActionsInit ==
    /\ settings \in ActionsSettings
    /\ current_language \in CallerLanguages
    /\ SyncIdle
    /\ SearchIdle

ActionsNext ==
    \E object_list \in ObjectLists, action \in {"index", "delete"}, fs \in BOOLEAN :
        get_actions(object_list, action, fs)

ActionsSpec == ActionsInit /\ [][ActionsNext]_vars

(***************************************************************************)
(* search.py: Search, SearchNone (specification SearchSpec)                *)
(***************************************************************************)
\* The document id of a primary key, as the cluster returns it in meta.id.
DocId(pk) == ToString(pk)

\* The primary-key value the ORM makes of a document id in pk__in=... and
\* When(pk=...): the integer the string spells.
to_python(id) == CHOOSE pk \in 1..MaxPk : DocId(pk) = id

\* The rows of the table: distinct primary keys in the backend's natural order.
Tables == UNION {Orderings(S) : S \in SUBSET (1..MaxPk)}

\* The hit lists a cluster can answer with.
HitLists == SeqsUpTo({DocId(pk) : pk \in 1..MaxPk}, MaxHits)

Models == {None, "Article"}

NoResponse == [hits |-> <<>>, total |-> -1, max_score |-> None]

\* The keys from and size of a dict: <<>> for a key that is absent, <<n>> for
\* the value n.
NoPagination == [from |-> <<>>, size |-> <<>>]

\* The payload of SearchNone.__init__ (lines 57-63).
EmptyResponse == [hits |-> <<>>, total |-> 0, max_score |-> None]

\* The response of the cluster to a search request.
ClusterResponse(hits) ==
    [hits |-> hits, total |-> Len(hits),
     max_score |-> IF hits = <<>> THEN None ELSE "score"]

\* Search.__init__: the model is popped from the keyword arguments; no
\* response is set.
Search_init(model) ==
    [cls |-> "Search", _model |-> model, has_response |-> FALSE, _response |-> NoResponse,
     _extra |-> NoPagination]

\* A none variant built without its payload.
SearchNone_init_unexecuted(model) ==
    [cls |-> "SearchNone", _model |-> model, has_response |-> FALSE,
     _response |-> NoResponse, _extra |-> NoPagination]

\* SearchNone.__init__: Search.__init__, then the empty payload as _response.
SearchNone_init(model) ==
    [Search_init(model) EXCEPT !.cls = "SearchNone", !.has_response = TRUE,
                               !._response = EmptyResponse]

\* A clone that is not bound to the model of the original.
_clone_unbound(self) ==
    IF self.cls = "SearchNone" THEN SearchNone_init(None) ELSE Search_init(None)

\* A clone that carries the cached response of the original along.
_clone_withResponse(self) ==
    [self EXCEPT !._model = self._model]

\* Search._clone: the parent's _clone builds a new object of the same class
\* from using/index/doc_type (its __init__ runs, without a model) and copies
\* the query's parts (_extra among them), then line 14 copies the model.
_clone(self) ==
    LET s == IF self.cls = "SearchNone" THEN SearchNone_init(None) ELSE Search_init(None)
    IN  [s EXCEPT !._extra = self._extra, !._model = self._model]

\* A to_queryset that executes whatever is cached.
NeedsExecute_always(self) == TRUE

\* Line 25: `not hasattr(self, '_response')`.
NeedsExecute(self) == ~self.has_response

\* Line 30: the ids of the hits, in hit order.
HitIds(response) == response.hits

\* Line 32: filter(pk__in=pks) on the table, in the backend's natural order.
filter_pk_in(rows, pks) ==
    SelectSeq(rows, LAMBDA pk : \E k \in 1..Len(pks) : to_python(pks[k]) = pk)

\* The value of Case(*[When(pk=pk, then=pos) for pos, pk in enumerate(pks)])
\* for a row: the position of the first When that matches, NULL (here
\* Len(pks)) when none does.
preserved_order(pk, pks) ==
    LET matches == {k \in 1..Len(pks) : to_python(pks[k]) = pk}
    IN  IF matches = {} THEN Len(pks)
        ELSE (CHOOSE k \in matches : \A m \in matches : k <= m) - 1

RECURSIVE InsertBy(_, _, _)
\* Inserts a row into rows sorted by key, after the rows of equal key.
InsertBy(row, sorted, pks) ==
    IF sorted = <<>> THEN <<row>>
    ELSE IF preserved_order(row, pks) < preserved_order(Head(sorted), pks)
         THEN <<row>> \o sorted
         ELSE <<Head(sorted)>> \o InsertBy(row, Tail(sorted), pks)

RECURSIVE SortedRows(_, _, _)
SortedRows(rows, pks, sorted) ==
    IF rows = <<>> THEN sorted
    ELSE SortedRows(Tail(rows), pks, InsertBy(Head(rows), sorted, pks))

\* An ordering that returns one row for every hit that names a row.
order_by_perHit(rows, pks) ==
    LET hits == SelectSeq(pks, LAMBDA id : to_python(id) \in Range(rows))
    IN  [k \in 1..Len(hits) |-> to_python(hits[k])]

\* An ordering that leaves the rows in the backend's natural order.
order_by_natural(rows, pks) == rows

\* Line 38: qs.order_by(preserved_order).
order_by(rows, pks) == SortedRows(rows, pks, <<>>)

\* dict.update, for the keys from and size.
Updated(d, other) ==
    [from |-> IF other.from # <<>> THEN other.from ELSE d.from,
     size |-> IF other.size # <<>> THEN other.size ELSE d.size]

\* Line 43, super().to_dict(count=count, **kwargs): the pagination set on the
\* query (_extra) is part of the body unless count; the keyword arguments are
\* merged into the body last.
super_to_dict(self, count, kwargs) ==
    Updated(IF count THEN NoPagination ELSE Updated(NoPagination, self._extra), kwargs)

\* Line 48: the default of getattr(settings, 'ELASTICSEARCH_DSL_LOAD_PER_QUERY', 10).
DefaultLoadPerQuery == 10

LoadPerQuery(s) ==
    IF s.LOAD_PER_QUERY = <<>> THEN DefaultLoadPerQuery ELSE s.LOAD_PER_QUERY[1]

\* A to_dict that adds its defaults only when the body has neither key.
to_dict_whenNeither(self, count, kwargs, s) ==
    LET query_body == super_to_dict(self, count, kwargs)
    IN  IF ~count /\ query_body = NoPagination
        THEN [from |-> <<0>>, size |-> <<LoadPerQuery(s)>>]
        ELSE query_body

\* Search.to_dict (lines 42-49).
to_dict(self, count, kwargs, s) ==
    LET query_body == super_to_dict(self, count, kwargs)
    IN  IF ~count
        THEN [from |-> IF query_body.from = <<>> THEN <<0>> ELSE query_body.from,
              size |-> IF query_body.size = <<>> THEN <<LoadPerQuery(s)>>
                       ELSE query_body.size]
        ELSE query_body

\* Search(model=...) is constructed.
Search_new(model) ==
    /\ Len(heap) < MaxSearches
    /\ heap' = Append(heap, Search_init(model))
    /\ queried' = Append(queried, FALSE)
    /\ last' = [call |-> "Search", q |-> Len(heap) + 1]
    /\ UNCHANGED <<settings, current_language, syncVars, table, es_hits>>

\* SearchNone(model=...) is constructed.
SearchNone_new(model) ==
    /\ Len(heap) < MaxSearches
    /\ heap' = Append(heap, SearchNone_init(model))
    /\ queried' = Append(queried, FALSE)
    /\ last' = [call |-> "SearchNone", q |-> Len(heap) + 1]
    /\ UNCHANGED <<settings, current_language, syncVars, table, es_hits>>

\* q._clone(), as every chained call (filter, source, ...) makes it.
clone(q) ==
    /\ Len(heap) < MaxSearches
    /\ heap' = Append(heap, _clone(heap[q]))
    /\ queried' = Append(queried, FALSE)
    /\ last' = [call |-> "_clone", q |-> q, new |-> Len(heap) + 1]
    /\ UNCHANGED <<settings, current_language, syncVars, table, es_hits>>

\* q.execute(): queries the cluster unless a response is cached, and caches
\* the response on q.
execute(q) ==
    /\ heap' = [heap EXCEPT ![q] =
                    IF heap[q].has_response THEN @
                    ELSE [@ EXCEPT !.has_response = TRUE,
                                   !._response = ClusterResponse(es_hits)]]
    /\ last' = [call |-> "execute", q |-> q, fetched |-> ~heap[q].has_response]
    /\ UNCHANGED <<settings, current_language, syncVars, table, es_hits, queried>>

\* q.to_queryset(keep_order).
to_queryset(q, keep_order) ==
    LET self == heap[q]
        fetch == NeedsExecute(self)
        \* lines 27-28: a clone restricted to the meta fields is executed; the
        \* response is cached on that clone, not on self
        s == IF fetch THEN _clone(self) ELSE self
        response == IF fetch THEN ClusterResponse(es_hits) ELSE self._response
        pks == HitIds(response)
        qs == filter_pk_in(table, pks)
        rows == IF keep_order THEN order_by(qs, pks) ELSE qs
    IN  /\ queried' = [queried EXCEPT ![q] = @ \/ fetch]
        /\ last' = [call |-> "to_queryset", q |-> q, keep_order |-> keep_order,
                    fetched |-> fetch, refetched |-> fetch /\ queried[q], pks |-> pks,
                    s_model |-> s._model,
                    \* line 32: None has no attribute objects
                    raised |-> self._model = None,
                    rows |-> IF self._model = None THEN <<>> ELSE rows]
        /\ UNCHANGED <<settings, current_language, syncVars, table, es_hits, heap>>

\* q.extra(from_=..., size=...) and q[a:b]: a clone whose _extra is updated.
Search_extra(q, kw) ==
    /\ Len(heap) < MaxSearches
    /\ heap' = Append(heap, [_clone(heap[q]) EXCEPT !._extra = Updated(@, kw)])
    /\ queried' = Append(queried, FALSE)
    /\ last' = [call |-> "extra", q |-> q, new |-> Len(heap) + 1]
    /\ UNCHANGED <<settings, current_language, syncVars, table, es_hits>>

\* q.to_dict(count=count, **kwargs).
Search_to_dict(q, count, kwargs) ==
    /\ last' = [call |-> "to_dict", q |-> q, count |-> count, kwargs |-> kwargs,
                body |-> to_dict(heap[q], count, kwargs, settings)]
    /\ UNCHANGED <<settings, current_language, syncVars, table, es_hits, heap, queried>>

\* The life of Search objects, over a one-row table and an index with no or
\* one hit.
SearchInit ==
    /\ settings = BaseSettings
    /\ current_language = None
    /\ SyncIdle
    /\ table = <<1>>
    /\ es_hits \in {<<>>, <<DocId(1)>>}
    /\ heap = <<>>
    /\ queried = <<>>
    /\ last = [call |-> "none"]

SearchNext ==
    \/ \E model \in Models : Search_new(model)
    \/ \E model \in Models : SearchNone_new(model)
    \/ \E q \in 1..Len(heap) : clone(q)
    \/ \E q \in 1..Len(heap) : execute(q)
    \/ \E q \in 1..Len(heap), keep_order \in BOOLEAN : to_queryset(q, keep_order)

SearchSpec == SearchInit /\ [][SearchNext]_vars

\* to_queryset of one query bound to a model, over every table and every
\* list of hits.
QuerysetInit ==
    /\ settings = BaseSettings
    /\ current_language = None
    /\ SyncIdle
    /\ table \in Tables
    /\ es_hits \in HitLists
    /\ heap = <<Search_init("Article")>>
    /\ queried = <<FALSE>>
    /\ last = [call |-> "none"]

QuerysetNext ==
    \/ execute(1)
    \/ \E keep_order \in BOOLEAN : to_queryset(1, keep_order)

QuerysetSpec == QuerysetInit /\ [][QuerysetNext]_vars

\* The values of from and size a caller sets, on the query or in the call.
Paginations == [from : {<<>>, <<5>>}, size : {<<>>, <<0>>, <<20>>}]

\* The request bodies of queries (specification ToDictSpec).
ToDictInit ==
    /\ settings \in {[BaseSettings EXCEPT !.LOAD_PER_QUERY = n] : n \in {<<>>, <<25>>}}
    /\ current_language = None
    /\ SyncIdle
    /\ table = <<>>
    /\ es_hits = <<>>
    /\ heap \in {<<Search_init("Article")>>, <<SearchNone_init("Article")>>}
    /\ queried = <<FALSE>>
    /\ last = [call |-> "none"]

ToDictNext ==
    \/ \E q \in 1..Len(heap), kw \in Paginations : Search_extra(q, kw)
    \/ \E q \in 1..Len(heap), count \in BOOLEAN, kwargs \in Paginations :
         Search_to_dict(q, count, kwargs)

ToDictSpec == ToDictInit /\ [][ToDictNext]_vars

(***************************************************************************)
(* Properties of the dispatch (specification Spec)                         *)
(***************************************************************************)
CalledAliases == [k \in 1..Len(calls) |-> calls[k].alias]

IsPrefix(s, t) == Len(s) <= Len(t) /\ s = SubSeq(t, 1, Len(s))

Finished == pc \in {"returned", "raised"}

\* The positions of the calls made to the cluster `alias`.
CallsTo(alias) == {k \in 1..Len(calls) : calls[k].alias = alias}

\* The order in which a method reaches the clusters.
DispatchOrder(name) ==
    IF name = "delete" THEN Keys
    ELSE SelectSeq(Keys, LAMBDA a : a # "default") \o <<"default">>

\* C1 (as stated): when update returns, with two or more clusters configured and
\* a non-empty input, every configured cluster was called once and drew the
\* complete sequence of generated actions.
C1_EveryClusterGetsAllActions ==
    (pc = "returned" /\ op.name = "update" /\ Len(Keys) >= 2 /\ op.object_list # <<>>)
        => \A a \in Range(Keys) :
              /\ Cardinality(CallsTo(a)) = 1
              /\ \A k \in CallsTo(a) : calls[k].got = actions.run.yielded

\* C2 (as stated): a bulk, save or delete call that returns has invoked every
\* configured cluster exactly once, and "default" last.
C2_DefaultInvokedLast ==
    pc = "returned"
        => /\ \A a \in Range(Keys) : Cardinality(CallsTo(a)) = 1
           /\ Len(calls) = Len(Keys)
           /\ calls[Len(calls)].alias = "default"

\* C2 (amended): the clusters a call has invoked so far are a prefix, without
\* repetition, of the method's dispatch order: for bulk and save the non-default
\* clusters in enumeration order and then "default", for delete the enumeration
\* order itself; a call that returns has invoked the whole order, every cluster
\* exactly once.
C2_DispatchOrder ==
    /\ op.name # "none" => IsPrefix(CalledAliases, DispatchOrder(op.name))
    /\ pc = "returned"
          => /\ CalledAliases = DispatchOrder(op.name)
             /\ \A a \in Range(Keys) : Cardinality(CallsTo(a)) = 1
             /\ op.name # "delete" => calls[Len(calls)].alias = "default"

\* C2 witness: a delete that returned after invoking three clusters, "default" first.
C2_Witness ==
    /\ pc = "returned" /\ op.name = "delete"
    /\ Len(calls) = 3 /\ calls[1].alias = "default"

\* C3 (as stated): when every cluster call succeeded, the value bulk, save or
\* delete returns is the result of the call to the "default" cluster.
C3_ReturnsDefaultResult ==
    pc = "returned"
        => /\ ~ret.raised
           /\ \A k \in CallsTo("default") : ret.value = calls[k].result

\* C3 (amended): when every cluster call succeeded, bulk and save (and update,
\* which returns what bulk returns) return the result of the call to the
\* "default" cluster; delete returns None whatever the clusters answered.
C3_ReturnValue ==
    pc = "returned"
        => /\ ~ret.raised
           /\ CallsTo("default") # {}
           /\ IF op.name = "delete"
              THEN ret.value = NoneValue
              ELSE \A k \in CallsTo("default") : ret.value = calls[k].result

\* C3 witness: a save over two clusters that answered differently returned the
\* answer of "default".
C3_Witness ==
    /\ pc = "returned" /\ op.name = "save" /\ Len(calls) = 2
    /\ calls[1].result # calls[2].result
    /\ ret.value = calls[2].result

\* C4 (amended): in bulk and save (and update), a call to a non-default cluster
\* that raises ends the method: it is the last cluster call made, "default" is
\* not invoked, and the caller receives that cluster's exception.
C4_NonDefaultFailurePropagates ==
    \A k \in 1..Len(calls) :
        (op.name \in {"bulk", "update", "save"}
          /\ calls[k].alias # "default" /\ calls[k].outcome = "fail")
            => /\ pc = "raised"
               /\ k = Len(calls)
               /\ CallsTo("default") = {}
               /\ ret = Raised(calls[k].err)

\* C4 witness: a save over three clusters whose second non-default call raised,
\* after the first one succeeded.
C4_Witness ==
    /\ op.name = "save" /\ pc = "raised" /\ Len(Keys) = 3
    /\ Len(calls) = 2 /\ calls[1].outcome = "ok"
    /\ calls[2].alias # "default" /\ calls[2].outcome = "fail"

\* C4 (as stated): in bulk and save, after a failed call to a non-default cluster
\* the "default" cluster is still invoked and the caller gets its outcome.
C4_NonDefaultFailureNotSurfaced ==
    (Finished /\ op.name \in {"bulk", "update", "save"}
      /\ \E k \in 1..Len(calls) : calls[k].alias # "default" /\ calls[k].outcome = "fail")
        => /\ CallsTo("default") # {}
           /\ \A k \in CallsTo("default") :
                IF calls[k].outcome = "ok"
                THEN ret = Returned(calls[k].result)
                ELSE ret = Raised(calls[k].err)

(***************************************************************************)
(* Properties of action generation (specification ActionsSpec)             *)
(***************************************************************************)
GetActionsDone == Finished /\ op.name = "_get_actions"

\* The fan-out of one object: one action per language analyser when translation
\* is enabled, one action otherwise.
FanOut == IF settings.TRANSLATION_ENABLED THEN Len(settings.LANGUAGE_ANALYSERS) ELSE 1

\* C8 (as stated): _get_actions yields exactly len(objects) actions without
\* translation and len(objects) * len(language_analysers) with it, for every
\* input length and with or without pagination.
C8_ActionCount ==
    GetActionsDone
        => /\ ~ret.raised
           /\ Len(ret.value) = Len(op.object_list) * FanOut

\* The same call with queryset pagination disabled.
Unpaginated ==
    _get_actions(op.object_list, op.action, op.fail_silently,
                 [settings EXCEPT !.queryset_pagination = <<>>], current_language)

\* C9: with queryset pagination configured, _get_actions yields the same
\* sequence of actions, and ends the same way, as with pagination disabled.
C9_PaginationPreservesSequence ==
    GetActionsDone
        => /\ ret.value = Unpaginated.yielded
           /\ ret.raised = Unpaginated.raised
           \* the pages, in order, hold the objects of the input, in order
           /\ IterObjects(op.object_list, settings) = op.object_list

\* C9 witness: three objects in pages of two (a full page and a remainder),
\* all processed, in the order of the input.
C9_Witness ==
    /\ GetActionsDone /\ ~ret.raised
    /\ settings.queryset_pagination = <<2>> /\ ~settings.TRANSLATION_ENABLED
    /\ op.object_list = <<2, 1, 2>>
    /\ [k \in 1..Len(ret.value) |-> ret.value[k]._id] = op.object_list

(***************************************************************************)
(* Properties of Search (specifications SearchSpec and QuerysetSpec)       *)
(***************************************************************************)
Objects == 1..Len(heap)

\* C5 (as stated): over the to_queryset calls made on one query object the
\* cluster is queried at most once: a call that returns a queryset never
\* queries it again.
C5_QueriedAtMostOnce ==
    (last.call = "to_queryset" /\ ~last.raised) => ~last.refetched

\* C5 (amended): a cached response stays cached, unchanged, and to_queryset
\* queries the cluster exactly when the query object has no cached response;
\* it caches nothing on the object, so the object is as it was before the call
\* and every to_queryset call on a query that was not executed queries again.
C5_CacheOnlyByExecute ==
    [][\A q \in Objects :
          /\ heap[q].has_response
                => heap'[q].has_response /\ heap'[q]._response = heap[q]._response
          /\ (last'.call = "to_queryset" /\ last'.q = q)
                => /\ last'.fetched = ~heap[q].has_response
                   /\ heap'[q] = heap[q]]_vars

\* C5 witness: a second to_queryset call on a query that is still unexecuted
\* queried the cluster again.
C5_Witness ==
    /\ last.call = "to_queryset" /\ last.refetched /\ ~last.raised
    /\ ~heap[last.q].has_response

\* C6 (as stated): the clone of an executed query is executed and holds the
\* cached response of the original.
C6_CloneKeepsResponse ==
    (last.call = "_clone" /\ heap[last.q].has_response)
        => /\ heap[last.new].has_response
           /\ heap[last.new]._response = heap[last.q]._response

\* C6 (amended): a clone is of the class of its original and carries no cached
\* response over: the clone of a Search is unexecuted, whether or not the
\* original was executed; the clone of a SearchNone is executed, holding the
\* empty payload that its constructor sets.
C6_CloneIsFresh ==
    last.call = "_clone"
        => /\ heap[last.new].cls = heap[last.q].cls
           /\ heap[last.new].cls = "Search" => ~heap[last.new].has_response
           /\ heap[last.new].cls = "SearchNone"
                 => /\ heap[last.new].has_response
                    /\ heap[last.new]._response = EmptyResponse

\* C6 witness: an executed Search holding a hit was cloned, and the clone is
\* unexecuted.
C6_Witness ==
    /\ last.call = "_clone"
    /\ heap[last.q].cls = "Search" /\ heap[last.q].has_response
    /\ heap[last.q]._response.hits # <<>>
    /\ ~heap[last.new].has_response

RECURSIVE HitOrderRows(_, _, _)
\* The rows of the table met when walking the hits in hit order, each row at
\* the first hit that names it.
HitOrderRows(pks, rows, out) ==
    IF pks = <<>> THEN out
    ELSE LET pk == to_python(Head(pks))
         IN  HitOrderRows(Tail(pks), rows,
                          IF pk \in Range(rows) /\ pk \notin Range(out)
                          THEN Append(out, pk) ELSE out)

\* C7: to_queryset(keep_order=True) returns exactly the rows whose primary key
\* is among the hit identifiers, in the order of the hits, whatever the natural
\* order of the table.
C7_KeepOrder ==
    (last.call = "to_queryset" /\ last.keep_order /\ ~last.raised)
        => /\ last.pks = es_hits
           /\ Range(last.rows) = Range(table) \cap {to_python(id) : id \in Range(es_hits)}
           /\ last.rows = HitOrderRows(es_hits, table, <<>>)

\* C7 witness: two rows returned in hit order, the reverse of their natural order.
C7_Witness ==
    /\ last.call = "to_queryset" /\ last.keep_order
    /\ Len(last.rows) = 2
    /\ last.rows # filter_pk_in(table, last.pks)

\* C10: a SearchNone is executed from construction, with zero hits and no max
\* score; to_queryset calls on it never query the cluster and select no row.
C10_NoneVariant ==
    \A q \in Objects :
        heap[q].cls = "SearchNone"
            => /\ heap[q].has_response
               /\ heap[q]._response.hits = <<>>
               /\ heap[q]._response.total = 0
               /\ heap[q]._response.max_score = None
               /\ ~queried[q]
               /\ (last.call = "to_queryset" /\ last.q = q)
                     => ~last.fetched /\ last.rows = <<>>

\* C10 witness: to_queryset on a SearchNone bound to a model, while the index
\* holds a hit whose row is in the table.
C10_Witness ==
    /\ last.call = "to_queryset" /\ heap[last.q].cls = "SearchNone"
    /\ ~last.raised
    /\ filter_pk_in(table, es_hits) # <<>>

(***************************************************************************)
(* Properties of the request body (specification ToDictSpec)               *)
(***************************************************************************)
\* The value the caller set for a key: the keyword argument of the call if
\* given, else the value set on the query.
CallerSet(q, kwargs) == Updated(heap[q]._extra, kwargs)

\* C11 (as stated): to_dict(count=True) never contains from or size;
\* to_dict(count=False) contains both, each one being the value the caller set
\* if there is one and else its own default (from 0, size the configured page
\* size), independently of the other key.
C11_ToDictPagination ==
    last.call = "to_dict"
        => LET set == CallerSet(last.q, last.kwargs)
           IN  /\ last.count => last.body = NoPagination
               /\ ~last.count
                     => /\ last.body.from # <<>> /\ last.body.size # <<>>
                        /\ last.body.from = IF set.from # <<>> THEN set.from ELSE <<0>>
                        /\ last.body.size = IF set.size # <<>> THEN set.size
                                            ELSE <<LoadPerQuery(settings)>>

\* C11 (amended): the body of to_dict(count=True, **kwargs) holds from and size
\* exactly as the keyword arguments of the call give them: the pagination set
\* on the query is left out and no default is added. The body of
\* to_dict(count=False, **kwargs) holds both keys, each one being the value of
\* the keyword argument if given, else the value set on the query if any, else
\* its own default (from 0, size the configured page size), independently of
\* the other key.
C11_ToDictKeywordsKept ==
    last.call = "to_dict"
        => LET set == CallerSet(last.q, last.kwargs)
           IN  /\ last.count => last.body = last.kwargs
               /\ ~last.count
                     => /\ last.body.from # <<>> /\ last.body.size # <<>>
                        /\ last.body.from = IF set.from # <<>> THEN set.from ELSE <<0>>
                        /\ last.body.size = IF set.size # <<>> THEN set.size
                                            ELSE <<LoadPerQuery(settings)>>

\* C11 witness: a count body for a query with from and size set, called with
\* the keyword argument size: the body holds that size and no from.
C11_Witness ==
    /\ last.call = "to_dict" /\ last.count
    /\ heap[last.q]._extra = [from |-> <<5>>, size |-> <<0>>]
    /\ last.kwargs = [from |-> <<>>, size |-> <<20>>]
    /\ last.body = [from |-> <<>>, size |-> <<20>>]

(***************************************************************************)
(* Properties of index naming (specification NamingSpec)                   *)
(***************************************************************************)
NamingDone == op.name = "get_custom_index_name"

PrefixUnset == Falsy(settings.ES_INDEX_PREFIX)
SuffixUnset == Falsy(settings.ES_INDEX_SUFFIX)

\* C12 (as stated): called with a single base name, prefix and suffix unset and
\* translation disabled, get_custom_index_name completes normally and the name
\* it resolves is the base name.
C12_SingleNameIsBase ==
    (NamingDone /\ op.index.kind = "str"
      /\ PrefixUnset /\ SuffixUnset /\ ~settings.TRANSLATION_ENABLED)
        => /\ ~ret.raised
           /\ ret.value = Str(op.index.names[1])

\* The language tag a call names: the default English tag when unset.
LanguageTag == IF Falsy(op.language) THEN settings.LANGUAGE_ENGLISH ELSE op.language

\* prefix-base-language-suffix
Hyphenated(base) ==
    settings.ES_INDEX_PREFIX \o "-" \o base \o "-" \o LanguageTag
        \o "-" \o settings.ES_INDEX_SUFFIX

\* C13 (as stated): with translation enabled and both prefix and suffix set,
\* get_custom_index_name returns for every base name, given alone or in a list,
\* the name prefix-base-language-suffix, an unset language being the default
\* English tag.
C13_HyphenatedName ==
    (NamingDone /\ settings.TRANSLATION_ENABLED /\ ~PrefixUnset /\ ~SuffixUnset)
        => /\ ~ret.raised
           /\ ret.value.kind = op.index.kind
           /\ ret.value.names =
                 [k \in 1..Len(op.index.names) |-> Hyphenated(op.index.names[k])]

(***************************************************************************)
(* Properties of update over failing hooks (specification UpdateSpec)      *)
(***************************************************************************)
UpdateDone == Finished /\ op.name = "update"

\* The errors raised while preparing or translating a field.
FieldErrors == {"HookError", "TranslationError"}

\* C14 (as stated): with fail_silently true no error raised while preparing or
\* translating a field reaches the caller of update; with fail_silently false
\* such an error propagates to the caller.
C14_FailSilentlyPolicy ==
    UpdateDone
        => /\ op.fail_silently => ~(ret.raised /\ ret.err \in FieldErrors)
           /\ (~op.fail_silently /\ actions.run.raised /\ actions.run.err \in FieldErrors)
                 => ret = Raised(actions.run.err)

\* Whether the document has a mapped field, and one resolved by a hook.
HasMappedField == \E k \in 1..Len(settings.fields) : settings.fields[k].ded
HasHookedField ==
    \E k \in 1..Len(settings.fields) :
        /\ settings.fields[k].ded
        /\ settings.fields[k].with_related \/ settings.fields[k].prepare

\* The batch holds the broken instance and its document is prepared.
BrokenPrepared(how) ==
    /\ settings.broken.how = how
    /\ settings.broken.pk \in Range(op.object_list)
    /\ op.action # "delete"
    /\ settings.index_name.kind = "list"

\* The translation hook is called and fails on the broken instance.
TranslationFails ==
    /\ BrokenPrepared("translate") /\ HasMappedField
    /\ settings.TRANSLATION_ENABLED /\ settings.translate_field = "override"

\* C14 (amended): fail_silently governs the translation hook only. Whatever
\* fail_silently is, an exception raised while the actions are generated (a
\* prepare hook that raises among them) reaches the caller of update and ends
\* the call. An error of the translation hook, which is called only with
\* translation enabled, is raised to the caller when fail_silently is false;
\* when it is true the hook returns a best-effort value and every action of the
\* batch is generated.
C14_TranslationOnly ==
    UpdateDone
        => /\ actions.run.raised => ret = Raised(actions.run.err)
           /\ (BrokenPrepared("prepare") /\ HasHookedField)
                 => ret = Raised("HookError")
           /\ (ret.raised /\ ret.err = "HookError")
                 => BrokenPrepared("prepare") /\ HasHookedField
           /\ (ret.raised /\ ret.err = "TranslationError")
                 => ~op.fail_silently /\ TranslationFails
           /\ (TranslationFails /\ ~op.fail_silently)
                 => ret = Raised("TranslationError")
           /\ (TranslationFails /\ op.fail_silently)
                 => /\ ~actions.run.raised
                    /\ Len(actions.run.yielded)
                         = Len(op.object_list) * Len(settings.LANGUAGE_ANALYSERS)
                    /\ \A k \in 1..Len(actions.run.yielded) :
                         LET a == actions.run.yielded[k]
                         IN  \A f \in 1..Len(a._source.data) :
                                 a._source.data[f].value.text =
                                     IF a._id = settings.broken.pk
                                     THEN "best effort" ELSE "translated"

\* C14 witness: an update with fail_silently true over a batch of two whose
\* second instance makes a prepare hook raise ended with that error.
C14_Witness ==
    /\ UpdateDone /\ op.fail_silently
    /\ Len(op.object_list) = 2 /\ op.object_list[2] = settings.broken.pk
    /\ op.object_list[1] # settings.broken.pk
    /\ ret = Raised("HookError")

(***************************************************************************)
(* Properties of document preparation (specification PrepareSpec)          *)
(***************************************************************************)
\* C16: a _prepare_action call, whether it returns or raises (the index name
\* or the preparation of the document raising inside the override), leaves
\* the active language context as it was before the call.
C16_LanguageContextRestored ==
    [][current_language' = current_language]_vars

\* C16 witness: a _prepare_action call for another language than the caller's
\* ended with the error of a prepare hook, and the caller's language is active.
C16_Witness ==
    /\ op.name = "_prepare_action" /\ ret.raised /\ ret.err = "HookError"
    /\ op.language = "en" /\ current_language = "fr"

\* The names of the mapped fields of the document, in declaration order.
MappedFields == SelectSeq(settings.fields, LAMBDA f : f.ded)

\* C18: an action that _prepare_action returns has a null _source exactly when
\* its operation is delete; index and update actions carry the mapping of the
\* document's mapped fields; a delete never prepares the document, so no hook
\* error comes out of it.
C18_NullSourceIffDelete ==
    op.name = "_prepare_action"
        => /\ ~ret.raised
                 => /\ ret.value._op_type = op.action
                    /\ ret.value._source.null <=> op.action = "delete"
                    /\ op.action # "delete"
                          => [k \in 1..Len(ret.value._source.data) |->
                                  ret.value._source.data[k].name]
                             = [k \in 1..Len(MappedFields) |-> MappedFields[k].name]
           /\ op.action = "delete" => ~(ret.raised /\ ret.err \in FieldErrors)

\* C18 witness: an update action was built for a document with two mapped
\* fields, and a delete action for an instance on which the hooks fail.
C18_Witness ==
    /\ op.name = "_prepare_action" /\ ~ret.raised
    /\ \/ op.action = "update" /\ Len(ret.value._source.data) = 2
       \/ /\ op.action = "delete" /\ ret.value._source.null
          /\ settings.broken = [pk |-> op.object_list[1], how |-> "prepare"]
          /\ HasHookedField

\* The resolver the priority names for a field.
Resolver(field) ==
    IF field.with_related THEN "prepare_with_related"
    ELSE IF field.prepare THEN "prepare"
    ELSE "get_value_from_instance"

\* C19: the dict prepare returns has one item per mapped field; the value of
\* each was resolved by exactly one call, to the with-related hook if defined
\* (with the instance and the related instances to ignore), else to the prepare
\* hook if defined (with the instance), else to the extractor; translate_field
\* was applied to it, once, exactly when translation is enabled.
C19_ResolutionPriority ==
    (op.name = "prepare" /\ ~ret.raised)
        => /\ Len(ret.value) = Len(MappedFields)
           /\ \A k \in 1..Len(ret.value) :
                LET item == ret.value[k]
                    field == MappedFields[k]
                IN  /\ item.name = field.name
                    /\ Len(item.resolvers) = 1
                    /\ item.resolvers[1].by = Resolver(field)
                    /\ item.resolvers[1].instance = op.object_list[1]
                    /\ item.resolvers[1].related =
                          IF Resolver(field) = "prepare" THEN "not passed"
                          ELSE settings.related_to_ignore
                    /\ item.value.by = Resolver(field)
                    /\ Len(item.translations) = IF settings.TRANSLATION_ENABLED THEN 1 ELSE 0
                    /\ \A n \in 1..Len(item.translations) :
                          item.translations[n] = [field_name |-> field.name,
                                                  fail_silently |-> op.fail_silently]

\* C19 witness: a document that defines both hooks for "title" and none for
\* "body", prepared with translation enabled.
C19_Witness ==
    /\ op.name = "prepare" /\ ~ret.raised /\ settings.TRANSLATION_ENABLED
    /\ Len(ret.value) = 2
    /\ settings.fields[1].with_related /\ settings.fields[1].prepare
    /\ ret.value[1].resolvers[1].by = "prepare_with_related"
    /\ ret.value[2].resolvers[1].by = "get_value_from_instance"

\* C15: the model a query is bound to never changes; the query that _clone
\* returns is bound to the model of the query it was cloned from, and so is the
\* source-restricted clone that to_queryset executes. Every chain of clones is
\* therefore bound to the model of its first query.
C15_ClonePreservesModel ==
    [][/\ \A q \in Objects : heap'[q]._model = heap[q]._model
       /\ (last'.call = "_clone" /\ Len(heap') = Len(heap) + 1)
             => heap'[last'.new]._model = heap[last'.q]._model
       /\ (last'.call = "to_queryset" /\ last'.fetched)
             => last'.s_model = heap[last'.q]._model]_vars

\* C15 witness: three queries bound to the model, the third the clone of the
\* second, made while the first holds a response and the second does not.
C15_Witness ==
    /\ last.call = "_clone" /\ last.q = 2 /\ last.new = 3
    /\ \A q \in Objects : heap[q]._model = "Article"
    /\ heap[1].has_response /\ ~heap[2].has_response

\* The rows whose primary key is among the hit identifiers, in the natural
\* order of the table.
RowsAmongHits == SelectSeq(table, LAMBDA pk : DocId(pk) \in Range(es_hits))

\* C20: to_queryset returns, with keep_order false or true, each row whose
\* primary key is among the hit identifiers once and no other row; a hit
\* without a row and a repeated hit add nothing. Without keep_order the rows
\* come in the natural order of the table.
C20_SameRowsEitherOrder ==
    (last.call = "to_queryset" /\ ~last.raised)
        => /\ Range(last.rows) = Range(RowsAmongHits)
           /\ Len(last.rows) = Len(RowsAmongHits)
           /\ ~last.keep_order => last.rows = RowsAmongHits

\* C20 witness: the hits name one row of two twice, and to_queryset with
\* keep_order returned that row once.
C20_Witness ==
    /\ last.call = "to_queryset" /\ last.keep_order
    /\ Len(table) = 2 /\ Len(es_hits) >= 2 /\ Cardinality(Range(es_hits)) = 1
    /\ Len(last.rows) = 1

\* The position of the action of object j and analyser k in object-major order.
ActionAt(j, k) == ret.value[(j - 1) * Len(settings.LANGUAGE_ANALYSERS) + k]

\* C17 (as stated): with translation enabled _get_actions yields, for objects
\* o1..on and analysers l1..lm, n * m actions in object-major order, each with
\* the primary key of its object as _id, the index name computed for its
\* language as _index, and a body prepared under that language.
C17_ObjectMajorOrder ==
    (GetActionsDone /\ settings.TRANSLATION_ENABLED)
        => /\ ~ret.raised
           /\ Len(ret.value) = Len(op.object_list) * Len(settings.LANGUAGE_ANALYSERS)
           /\ \A j \in 1..Len(op.object_list), k \in 1..Len(settings.LANGUAGE_ANALYSERS) :
                LET a == ActionAt(j, k)
                    l == settings.LANGUAGE_ANALYSERS[k]
                IN  /\ a._id = op.object_list[j]
                    /\ a._index = get_custom_index_name(settings.index_name, l, settings)
                    /\ \A f \in 1..Len(a._source.data) :
                          a._source.data[f].value.language = l

====
